---- MODULE Spec2Model ----
(***************************************************************************)
(* Verlet soft-body simulation: the two scripts of the repository.         *)
(*   Main.js : Geometry.Vector, Physics.Node / Spring / Behavior /         *)
(*             Constraint / World                                          *)
(*   main.js : Vector, Node, Constraint, Solver                            *)
(*                                                                         *)
(* Numbers.  A JavaScript number is modelled as a pair <<n, d>>:           *)
(*   d > 0  : the rational n/d in lowest terms,                            *)
(*   <<1,0>>, <<-1,0>> : +Infinity, -Infinity,   <<0,0>> : NaN.            *)
(* Arithmetic is exact: the rounding of IEEE doubles and the sign of zero  *)
(* are not modelled.  Math.sqrt is taken only of squares of rationals; the *)
(* initial configurations are chosen so that every length is rational.     *)
(***************************************************************************)
EXTENDS Integers, Sequences, FiniteSets, TLC

VARIABLES program, world, solver, interaction, call, steps

vars == <<program, world, solver, interaction, call, steps>>

(***************************************************************************)
(* JavaScript numbers                                                      *)
(***************************************************************************)
RECURSIVE GCD(_, _)
GCD(a, b) == IF b = 0 THEN a ELSE GCD(b, a % b)

IAbs(n) == IF n < 0 THEN -n ELSE n

ISgn(n) == IF n < 0 THEN -1 ELSE IF n > 0 THEN 1 ELSE 0

\* n/d in lowest terms, d >= 0; d = 0 gives an infinity or NaN.
Norm(n, d) ==
  IF d = 0 THEN <<ISgn(n), 0>>
  ELSE LET g == GCD(IAbs(n), d) IN <<n \div g, d \div g>>

R(n) == <<n, 1>>

NaN == <<0, 0>>

isNaN(a) == a = NaN

isFinite(a) == a[2] # 0

\* a + b
NumAdd(a, b) ==
  IF isNaN(a) \/ isNaN(b) THEN NaN
  ELSE IF a[2] = 0 /\ b[2] = 0 THEN (IF a = b THEN a ELSE NaN)
  ELSE IF a[2] = 0 THEN a
  ELSE IF b[2] = 0 THEN b
  ELSE LET g == GCD(a[2], b[2])
       IN  Norm(a[1] * (b[2] \div g) + b[1] * (a[2] \div g),
                (a[2] \div g) * b[2])

NumNeg(a) == <<-a[1], a[2]>>

\* a - b
NumSub(a, b) == NumAdd(a, NumNeg(b))

\* a * b  (0 * Infinity = NaN, NaN * x = NaN)
NumMul(a, b) == Norm(a[1] * b[1], a[2] * b[2])

\* 1 / a  (1 / 0 = Infinity, 1 / Infinity = 0)
NumInv(a) ==
  IF isNaN(a) THEN NaN
  ELSE IF a[1] = 0 THEN <<1, 0>>
  ELSE IF a[1] < 0 THEN Norm(-a[2], -a[1])
  ELSE Norm(a[2], a[1])

\* The integer square root, by bisection of lo..hi; lo * lo <= n < hi * hi.
RECURSIVE Bisect(_, _, _)
Bisect(n, lo, hi) ==
  IF hi - lo <= 1 THEN lo
  ELSE LET mid == (lo + hi) \div 2
       IN  IF mid <= n \div mid THEN Bisect(n, mid, hi) ELSE Bisect(n, lo, mid)

\* The square root of a perfect square (of no other number: its root is not
\* rational).
ISqrt(n) ==
  LET r == Bisect(n, 0, 46341)
  IN  CHOOSE q \in {r} : q * q = n

\* Math.sqrt(a)
NumSqrt(a) ==
  IF isNaN(a) \/ a[1] < 0 THEN NaN
  ELSE IF a[2] = 0 THEN a
  ELSE <<ISqrt(a[1]), ISqrt(a[2])>>

\* a < b  (false when either is NaN)
NumLt(a, b) ==
  /\ ~isNaN(a)
  /\ ~isNaN(b)
  /\ IF a[2] # 0 /\ b[2] # 0 THEN a[1] * b[2] < b[1] * a[2]
     ELSE IF a[2] = 0 /\ b[2] = 0 THEN a[1] < b[1]
     ELSE IF a[2] = 0 THEN a[1] < 0
     ELSE b[1] > 0

\* a > b
NumGt(a, b) == NumLt(b, a)

\* a == b  (false when either is NaN)
NumEq(a, b) == ~isNaN(a) /\ ~isNaN(b) /\ a = b

\* a <= b
NumLe(a, b) == NumLt(a, b) \/ NumEq(a, b)

\* a != b  (true when either is NaN)
NumNe(a, b) == ~NumEq(a, b)

\* Math.abs(a)
NumAbs(a) == <<IAbs(a[1]), a[2]>>

\* Math.sign(a)
NumSign(a) == IF isNaN(a) THEN NaN ELSE R(ISgn(a[1]))

\* Math.min(a, b)
NumMin(a, b) ==
  IF isNaN(a) \/ isNaN(b) THEN NaN ELSE IF NumLt(b, a) THEN b ELSE a

\* Math.max(a, b)
NumMax(a, b) ==
  IF isNaN(a) \/ isNaN(b) THEN NaN ELSE IF NumGt(b, a) THEN b ELSE a

(***************************************************************************)
(* Geometry.Vector (Main.js) and Vector (main.js): the same operations     *)
(***************************************************************************)
Vector(x, y) == [x |-> x, y |-> y]

\* A vector with integer coordinates.
V(x, y) == Vector(R(x), R(y))

add(a, b) == Vector(NumAdd(a.x, b.x), NumAdd(a.y, b.y))

subtract(a, b) == Vector(NumSub(a.x, b.x), NumSub(a.y, b.y))

multiplyScaler(a, k) == Vector(NumMul(a.x, k), NumMul(a.y, k))

dot(a, b) == NumAdd(NumMul(a.x, b.x), NumMul(a.y, b.y))

length2(a) == dot(a, a)

length(a) == NumSqrt(length2(a))

normal(a) ==
  LET invLength == NumInv(length(a))
  IN  Vector(NumMul(a.x, invLength), NumMul(a.y, invLength))

min(a, b) == Vector(NumMin(a.x, b.x), NumMin(a.y, b.y))

max(a, b) == Vector(NumMax(a.x, b.x), NumMax(a.y, b.y))

clamp(a, lo, hi) == max(min(a, hi), lo)

zero == V(0, 0)

vectorFinite(a) == isFinite(a.x) /\ isFinite(a.y)

(***************************************************************************)
(* Main.js: Physics.Node                                                   *)
(***************************************************************************)
PhysicsNode(position) ==
  [position     |-> position,
   positionLast |-> position,
   acceleration |-> zero,
   velocity     |-> zero,
   isStatic     |-> FALSE]

applyImpulse(node, impulse) ==
  IF ~node.isStatic
    THEN [node EXCEPT !.position = add(node.position, impulse)]
    ELSE node

applyForce(node, force) ==
  IF ~node.isStatic
    THEN [node EXCEPT !.acceleration = add(node.acceleration, force)]
    ELSE node

updatePosition(node, deltaTime) ==
  LET velocity == subtract(node.position, node.positionLast)
  IN  [node EXCEPT
         !.velocity     = velocity,
         !.positionLast = node.position,
         !.position     = add(add(node.position, velocity),
                              multiplyScaler(node.acceleration,
                                             NumMul(deltaTime, deltaTime))),
         !.acceleration = zero]

(***************************************************************************)
(* Main.js: Physics.Spring.  nodes is a pair of indices into world.nodes;  *)
(* the restLength argument is null when it is not supplied.                *)
(***************************************************************************)
\* null is a pair that is no number.
null == <<0, -1>>

\* JavaScript truthiness of a restLength argument: null, 0 and NaN are falsy.
truthy(v) == v # null /\ v # R(0) /\ v # NaN

Spring(w, nodes, stiffness, restLength) ==
  [nodes      |-> nodes,
   restLength |-> IF truthy(restLength)
                    THEN restLength
                    ELSE length(subtract(w.nodes[nodes[1]].position,
                                         w.nodes[nodes[2]].position)),
   stiffness  |-> stiffness]

\* The trace of a World: the calls made by the step in progress, each with the
\* nodes as the call left them.
Event(w, op, idx, node) ==
  [op |-> op, idx |-> idx, node |-> node, nodes |-> w.nodes]

Record(w, op, idx, node) ==
  [w EXCEPT !.trace = Append(w.trace, Event(w, op, idx, node))]

\* world.nodes[n].applyImpulse(impulse)
impulseAt(w, n, impulse) ==
  [w EXCEPT !.nodes[n] = applyImpulse(w.nodes[n], impulse)]

\* relax() with the anchor at B treated as the mirror of the anchor at A.
relaxMirrored(w, s) ==
  LET spring == w.springs[s]
      a      == spring.nodes[1]
      b      == spring.nodes[2]
      delta  == subtract(w.nodes[a].position, w.nodes[b].position)
  IN  IF NumNe(delta.x, R(0)) \/ NumNe(delta.y, R(0))
        THEN LET movement ==
                   multiplyScaler(normal(delta),
                                  NumMul(spring.stiffness,
                                         NumSub(length(delta), spring.restLength)))
             IN  IF w.nodes[a].isStatic
                   THEN impulseAt(w, b, movement)
                   ELSE IF w.nodes[b].isStatic
                     THEN impulseAt(w, a, multiplyScaler(movement, R(-1)))
                     ELSE impulseAt(
                            impulseAt(w, a, multiplyScaler(movement, <<-1, 2>>)),
                            b, multiplyScaler(movement, <<1, 2>>))
        ELSE w

\* relax() pulling the nodes together whatever the restLength.
relaxToZeroLength(w, s) ==
  LET spring == w.springs[s]
      a      == spring.nodes[1]
      b      == spring.nodes[2]
      delta  == subtract(w.nodes[a].position, w.nodes[b].position)
  IN  IF NumNe(delta.x, R(0)) \/ NumNe(delta.y, R(0))
        THEN LET movement ==
                   multiplyScaler(normal(delta),
                                  NumMul(spring.stiffness, length(delta)))
             IN  IF w.nodes[a].isStatic
                   THEN impulseAt(w, b, movement)
                   ELSE IF w.nodes[b].isStatic
                     THEN impulseAt(w, a, multiplyScaler(movement, <<-1, 5>>))
                     ELSE impulseAt(
                            impulseAt(w, a, multiplyScaler(movement, <<-1, 2>>)),
                            b, multiplyScaler(movement, <<1, 2>>))
        ELSE w

relax(w, s) ==
  LET spring == w.springs[s]
      a      == spring.nodes[1]
      b      == spring.nodes[2]
      delta  == subtract(w.nodes[a].position, w.nodes[b].position)
  IN  IF NumNe(delta.x, R(0)) \/ NumNe(delta.y, R(0))
        THEN LET movement ==
                   multiplyScaler(normal(delta),
                                  NumMul(spring.stiffness,
                                         NumSub(length(delta), spring.restLength)))
             IN  IF w.nodes[a].isStatic
                   THEN impulseAt(w, b, movement)
                   ELSE IF w.nodes[b].isStatic
                     THEN impulseAt(w, a, multiplyScaler(movement, <<-1, 5>>))
                     ELSE impulseAt(
                            impulseAt(w, a, multiplyScaler(movement, <<-1, 2>>)),
                            b, multiplyScaler(movement, <<1, 2>>))
        ELSE w

(***************************************************************************)
(* Main.js: Physics.Behavior.GravityBehavior, a force vector, and          *)
(* Physics.Constraint.RectangleConstraint, a Geometry.Rectangle            *)
(***************************************************************************)
GravityBehavior(force) == [force |-> force]

\* behavior.apply(node)
GravityBehaviorApply(behavior, node) == applyForce(node, behavior.force)

Rectangle(position, scale) == [position |-> position, scale |-> scale]

RectangleConstraint(rectangle) == [rectangle |-> rectangle]

\* apply(node) clamping to the far corner of the rectangle only.
RectangleConstraintApplyFarCorner(constraint, node) ==
  applyImpulse(node,
    subtract(min(node.position,
                 add(constraint.rectangle.position, constraint.rectangle.scale)),
             node.position))

\* constraint.apply(node)
RectangleConstraintApply(constraint, node) ==
  applyImpulse(node,
    subtract(clamp(node.position,
                   constraint.rectangle.position,
                   add(constraint.rectangle.position, constraint.rectangle.scale)),
             node.position))

(***************************************************************************)
(* Main.js: Physics.World                                                  *)
(***************************************************************************)
World ==
  [deltaTime   |-> <<1, 60>>,
   nodes       |-> <<>>,
   springs     |-> <<>>,
   behaviors   |-> <<>>,
   constraints |-> <<>>,
   trace       |-> <<>>]

\* behaviors.forEach(behavior => nodes.forEach(node => behavior.apply(node))),
\* from the k-th (behavior, node) pair on.
RECURSIVE applyBehaviors(_, _)
applyBehaviors(w, k) ==
  IF k >= Len(w.behaviors) * Len(w.nodes) THEN w
  ELSE LET b == (k \div Len(w.nodes)) + 1
           n == (k % Len(w.nodes)) + 1
       IN  applyBehaviors(
             Record([w EXCEPT !.nodes[n] =
                       GravityBehaviorApply(w.behaviors[b], w.nodes[n])],
                    "behavior", b, n),
             k + 1)

\* nodes.forEach(node => node.updatePosition(deltaTime)), from node n on.
RECURSIVE integrate(_, _)
integrate(w, n) ==
  IF n > Len(w.nodes) THEN w
  ELSE integrate(
         Record([w EXCEPT !.nodes[n] = updatePosition(w.nodes[n], w.deltaTime)],
                "integration", 0, n),
         n + 1)

\* constraints.forEach(constraint => nodes.forEach(node => constraint.apply(node)))
RECURSIVE applyConstraints(_, _)
applyConstraints(w, k) ==
  IF k >= Len(w.constraints) * Len(w.nodes) THEN w
  ELSE LET c == (k \div Len(w.nodes)) + 1
           n == (k % Len(w.nodes)) + 1
       IN  applyConstraints(
             Record([w EXCEPT !.nodes[n] =
                       RectangleConstraintApply(w.constraints[c], w.nodes[n])],
                    "constraint", c, n),
             k + 1)

\* springs.forEach(spring => spring.relax()), from spring s on.
RECURSIVE relaxSprings(_, _)
relaxSprings(w, s) ==
  IF s > Len(w.springs) THEN w
  ELSE relaxSprings(Record(relax(w, s), "spring", s, 0), s + 1)

\* step() relaxing the springs before it applies the constraints.
WorldStepSpringsFirst(w) ==
  applyConstraints(
    relaxSprings(
      integrate(
        applyBehaviors([w EXCEPT !.trace = <<>>], 0),
        1),
      1),
    0)

\* World.step(); the trace starts anew with each step.
WorldStep(w) ==
  relaxSprings(
    applyConstraints(
      integrate(
        applyBehaviors([w EXCEPT !.trace = <<>>], 0),
        1),
      0),
    1)

(***************************************************************************)
(* main.js: Node (no static flag)                                          *)
(***************************************************************************)
Node(position) ==
  [position     |-> position,
   positionLast |-> position,
   acceleration |-> zero,
   velocity     |-> zero]

NodeApplyImpulse(node, force) ==
  [node EXCEPT !.position = add(node.position, force)]

NodeApplyForce(node, force) ==
  [node EXCEPT !.acceleration = add(node.acceleration, force)]

NodeUpdate(node, deltaTime) ==
  LET velocity == subtract(node.position, node.positionLast)
  IN  [node EXCEPT
         !.velocity     = velocity,
         !.positionLast = node.position,
         !.position     = add(add(node.position, velocity),
                              multiplyScaler(node.acceleration,
                                             NumMul(deltaTime, deltaTime))),
         !.acceleration = zero]

(***************************************************************************)
(* main.js: Constraint, the spring between solver.nodes[node0] and         *)
(* solver.nodes[node1]                                                     *)
(***************************************************************************)
Constraint(node0, node1, len, stiffness) ==
  [node0 |-> node0, node1 |-> node1, length |-> len, stiffness |-> stiffness]

ConstraintUpdate(s, c) ==
  LET constraint == s.constraints[c]
      d == subtract(s.nodes[constraint.node0].position,
                    s.nodes[constraint.node1].position)
      f == multiplyScaler(normal(d),
                          NumMul(NumMul(<<1, 2>>, constraint.stiffness),
                                 NumSub(length(d), constraint.length)))
      s1 == [s EXCEPT !.nodes[constraint.node0] =
                        NodeApplyImpulse(@, multiplyScaler(f, R(-1)))]
  IN  [s1 EXCEPT !.nodes[constraint.node1] = NodeApplyImpulse(@, f)]

(***************************************************************************)
(* main.js: Solver                                                         *)
(***************************************************************************)
Solver(width, height) ==
  [width          |-> width,
   height         |-> height,
   deltaTime      |-> <<1, 60>>,
   gravity        |-> zero,
   borderFriction |-> R(0),
   boundsMargin   |-> R(0),
   nodes          |-> <<>>,
   constraints    |-> <<>>,
   trace          |-> <<>>]

\* The trace of a Solver: the calls made by the step in progress, each with the
\* node before and after it (for a constraint: node0), and for applyBounds the
\* planes the node crossed and those where |j| <= k.
SolverEvent(op, idx, node, before, after, crossed, arrested) ==
  [op |-> op, idx |-> idx, node |-> node, before |-> before, after |-> after,
   crossed |-> crossed, arrested |-> arrested]

\* The friction of one plane: what is subtracted from the tangential coordinate,
\* with j the tangential velocity and v the normal velocity.
friction(j, v, borderFriction) ==
  LET k == NumAbs(NumMul(v, borderFriction))
      t == NumSign(j)
  IN  IF NumLe(NumAbs(j), k)
        THEN IF NumGt(NumMul(j, t), R(0)) THEN j ELSE R(0)
        ELSE IF NumGt(k, R(0)) THEN NumMul(k, t) ELSE R(0)

\* |j| <= k at a plane with tangential velocity j and normal velocity v.
arrests(j, v, borderFriction) ==
  NumLe(NumAbs(j), NumAbs(NumMul(v, borderFriction)))

crossesLeft(node, s) == NumLt(node.position.x, s.boundsMargin)

boundsLeft(node, s) ==
  IF crossesLeft(node, s)
    THEN [node EXCEPT
           !.position.x     = s.boundsMargin,
           !.positionLast.x = s.boundsMargin,
           !.position.y     = NumSub(node.position.y,
                                friction(node.velocity.y, node.velocity.x,
                                         s.borderFriction))]
    ELSE node

crossesRight(node, s) ==
  NumGt(node.position.x, NumSub(s.width, s.boundsMargin))

boundsRight(node, s) ==
  IF crossesRight(node, s)
    THEN [node EXCEPT
           !.position.x     = NumSub(s.width, s.boundsMargin),
           !.positionLast.x = NumSub(s.width, s.boundsMargin),
           !.position.y     = NumSub(node.position.y,
                                friction(node.velocity.y, node.velocity.x,
                                         s.borderFriction))]
    ELSE node

crossesTop(node, s) == NumLt(node.position.y, s.boundsMargin)

boundsTop(node, s) ==
  IF crossesTop(node, s)
    THEN [node EXCEPT
           !.position.y     = s.boundsMargin,
           !.positionLast.y = s.boundsMargin,
           !.position.x     = NumSub(node.position.x,
                                friction(node.velocity.x, node.velocity.y,
                                         s.borderFriction))]
    ELSE node

crossesBottom(node, s) ==
  NumGt(node.position.y, NumSub(s.height, s.boundsMargin))

boundsBottom(node, s) ==
  IF crossesBottom(node, s)
    THEN [node EXCEPT
           !.position.y     = NumSub(s.height, s.boundsMargin),
           !.positionLast.y = NumSub(s.height, s.boundsMargin),
           !.position.x     = NumSub(node.position.x,
                                friction(node.velocity.x, node.velocity.y,
                                         s.borderFriction))]
    ELSE node

\* The body of applyBounds for one node: the four planes in the order left,
\* right, top, bottom.
applyBoundsNode(node, s) ==
  boundsBottom(boundsTop(boundsRight(boundsLeft(node, s), s), s), s)

\* The planes the node crosses in applyBoundsNode, each tested as the code
\* tests it: after the planes before it have acted.
crossedPlanes(node, s) ==
  LET n1 == boundsLeft(node, s)
      n2 == boundsRight(n1, s)
      n3 == boundsTop(n2, s)
  IN  (IF crossesLeft(node, s) THEN {"left"} ELSE {})
      \cup (IF crossesRight(n1, s) THEN {"right"} ELSE {})
      \cup (IF crossesTop(n2, s) THEN {"top"} ELSE {})
      \cup (IF crossesBottom(n3, s) THEN {"bottom"} ELSE {})

\* The crossed planes where |j| <= k.
arrestedPlanes(node, s) ==
  LET ax == arrests(node.velocity.y, node.velocity.x, s.borderFriction)
      ay == arrests(node.velocity.x, node.velocity.y, s.borderFriction)
  IN  {p \in crossedPlanes(node, s) :
         IF p \in {"left", "right"} THEN ax ELSE ay}

RECURSIVE applyGravity(_, _)
applyGravity(s, n) ==
  IF n > Len(s.nodes) THEN s
  ELSE LET after == NodeApplyForce(s.nodes[n], s.gravity)
       IN  applyGravity(
             [s EXCEPT !.nodes[n] = after,
                       !.trace = Append(@, SolverEvent("applyGravity", 0, n,
                                          s.nodes[n], after, {}, {}))],
             n + 1)

RECURSIVE updatePositions(_, _)
updatePositions(s, n) ==
  IF n > Len(s.nodes) THEN s
  ELSE LET after == NodeUpdate(s.nodes[n], s.deltaTime)
       IN  updatePositions(
             [s EXCEPT !.nodes[n] = after,
                       !.trace = Append(@, SolverEvent("updatePositions", 0, n,
                                          s.nodes[n], after, {}, {}))],
             n + 1)

RECURSIVE applyBounds(_, _)
applyBounds(s, n) ==
  IF n > Len(s.nodes) THEN s
  ELSE LET after == applyBoundsNode(s.nodes[n], s)
       IN  applyBounds(
             [s EXCEPT !.nodes[n] = after,
                       !.trace = Append(@, SolverEvent("applyBounds", 0, n,
                                          s.nodes[n], after,
                                          crossedPlanes(s.nodes[n], s),
                                          arrestedPlanes(s.nodes[n], s)))],
             n + 1)

RECURSIVE updateConstraints(_, _)
updateConstraints(s, c) ==
  IF c > Len(s.constraints) THEN s
  ELSE LET s1 == ConstraintUpdate(s, c)
           n0 == s.constraints[c].node0
       IN  updateConstraints(
             [s1 EXCEPT !.trace = Append(@, SolverEvent("updateConstraints", c, n0,
                                           s.nodes[n0], s1.nodes[n0], {}, {}))],
             c + 1)

\* Solver.step(); the trace starts anew with each step.
SolverStep(s) ==
  updateConstraints(
    applyBounds(
      updatePositions(
        applyGravity([s EXCEPT !.trace = <<>>], 1),
        1),
      1),
    1)

(***************************************************************************)
(* main.js: InputHandler and InteractionHandler.  currentnode is an index  *)
(* into solver.nodes, 0 when it is null or undefined.                      *)
(***************************************************************************)
nodeRadius == 5

InteractionHandler ==
  [mouse       |-> [position |-> zero, down |-> FALSE],
   currentnode |-> 0]

\* length(d) < r for r >= 0, decided on the squares: the distance to the mouse
\* need not be rational.
shorter(d, r) == NumLt(length2(d), NumMul(r, r))

\* The body of update() for node n: hs is the pair <<handler, solver>>.
updateNode(hs, n) ==
  LET h  == hs[1]
      s  == hs[2]
      h1 == IF h.mouse.down
              THEN IF /\ shorter(subtract(s.nodes[n].position, h.mouse.position),
                                 R(nodeRadius))
                      /\ (h.currentnode = n \/ h.currentnode = 0)
                     THEN [h EXCEPT !.currentnode = n]
                     ELSE h
              ELSE [h EXCEPT !.currentnode = 0]
  IN  IF h1.currentnode # 0
        THEN <<h1, [s EXCEPT !.nodes[h1.currentnode].position = h1.mouse.position]>>
        ELSE <<h1, s>>

\* InteractionHandler.update(): solver.nodes.forEach, from node n on.
RECURSIVE update(_, _)
update(hs, n) ==
  IF n > Len(hs[2].nodes) THEN hs ELSE update(updateNode(hs, n), n + 1)

(***************************************************************************)
(* State.                                                                  *)
(*   program : the script the page runs, "Main.js" or "main.js"            *)
(*   world   : the Physics.World of Main.js (null under main.js)           *)
(*   solver  : the Solver of main.js (null under Main.js)                  *)
(*   interaction : the InteractionHandler of main.js with its mouse (null  *)
(*             where the scene has none)                                   *)
(*   call    : the host's last call: its name, argument, and the world or  *)
(*             solver before it                                            *)
(*   steps   : the number of calls made so far                             *)
(***************************************************************************)
MaxSteps == 3

NoCall == [op |-> "none", arg |-> null, before |-> null]

Called(op, arg, before) == [op |-> op, arg |-> arg, before |-> before]

\* node.isStatic = true, by the host
pin(node, static) == [node EXCEPT !.isStatic = static]

(***************************************************************************)
(* Scenes.  The nodes stand on a small grid whose distances are rational.  *)
(***************************************************************************)
Places == {V(0, 0), V(3, 0), V(0, 4), V(3, 4)}

Stiffnesses == {R(0), <<1, 2>>, R(1), R(2)}

RestLengths == {null, R(0), R(2), R(5)}

\* Forces g with g * deltaTime^2 a whole number of grid units.
Forces == {V(0, 0), V(3600, 0), V(-3600, 0), V(0, 3600), V(-3600, -7200)}

Rectangles ==
  {Rectangle(V(0, 0), V(3, 4)), Rectangle(V(1, 0), V(1, 0)),
   Rectangle(V(0, 1), V(0, 2))}

\* The rectangle covers coordinate v of the given axis.
Covers(rectangle, axis, v) ==
  IF axis = "x"
    THEN NumLe(rectangle.position.x, v)
         /\ NumLe(v, NumAdd(rectangle.position.x, rectangle.scale.x))
    ELSE NumLe(rectangle.position.y, v)
         /\ NumLe(v, NumAdd(rectangle.position.y, rectangle.scale.y))

\* Scenes whose spring lengths stay rational: no spring; or nothing but the
\* springs moves the nodes; or every node lies on one grid line, the forces
\* act along it and the rectangles cover it.
RationalWorld(w) ==
  \/ w.springs = <<>>
  \/ /\ w.constraints = <<>>
     /\ \A b \in 1..Len(w.behaviors) : w.behaviors[b].force = zero
  \/ /\ \A n \in 1..Len(w.nodes) : w.nodes[n].position.y = w.nodes[1].position.y
     /\ \A b \in 1..Len(w.behaviors) : w.behaviors[b].force.y = R(0)
     /\ \A c \in 1..Len(w.constraints) :
          Covers(w.constraints[c].rectangle, "y", w.nodes[1].position.y)
  \/ /\ \A n \in 1..Len(w.nodes) : w.nodes[n].position.x = w.nodes[1].position.x
     /\ \A b \in 1..Len(w.behaviors) : w.behaviors[b].force.x = R(0)
     /\ \A c \in 1..Len(w.constraints) :
          Covers(w.constraints[c].rectangle, "x", w.nodes[1].position.x)

\* A world of two nodes, each pinned or not, without springs.
World2(p1, p2, s1, s2, behaviors, constraints) ==
  [World EXCEPT
     !.nodes       = <<pin(PhysicsNode(p1), s1), pin(PhysicsNode(p2), s2)>>,
     !.behaviors   = behaviors,
     !.constraints = constraints]

\* world.springs.push(new Physics.Spring(nodes, stiffness, restLength))
addSpring(w, nodes, stiffness, restLength) ==
  [w EXCEPT !.springs = Append(w.springs, Spring(w, nodes, stiffness, restLength))]

BehaviorLists ==
  {<<>>} \cup {<<GravityBehavior(f)>> : f \in Forces}
         \cup {<<GravityBehavior(V(3600, 0)), GravityBehavior(V(-3600, 0))>>}

ConstraintLists == {<<>>} \cup {<<RectangleConstraint(r)>> : r \in Rectangles}

Worlds ==
  LET bare == {World2(p1, p2, s1, s2, bs, cs) :
                 p1 \in Places, p2 \in Places, s1 \in BOOLEAN, s2 \in BOOLEAN,
                 bs \in BehaviorLists, cs \in ConstraintLists}
      sprung == {addSpring(w, <<1, 2>>, k, r) :
                   w \in bare, k \in Stiffnesses, r \in {null, R(2), R(5)}}
  IN  {w \in bare \cup sprung : RationalWorld(w)}

(***************************************************************************)
(* Spec: the page runs one of the two scripts; the host has built a scene  *)
(* and its frame loop calls step().                                        *)
(***************************************************************************)
InitWorld ==
  /\ program = "Main.js"
  /\ world \in Worlds
  /\ solver = null
  /\ interaction = null
  /\ call = NoCall
  /\ steps = 0

StepWorld ==
  /\ program = "Main.js"
  /\ steps < MaxSteps
  /\ world' = WorldStep(world)
  /\ call' = Called("step", null, world)
  /\ steps' = steps + 1
  /\ UNCHANGED <<program, solver, interaction>>

\* Solver scenes: a 4 x 4 canvas, the nodes inside the bounds.
SolverPlaces == {V(1, 1), V(3, 1), V(1, 3), V(2, 2)}

SolverForces ==
  {V(0, 0), V(-3600, 0), V(0, -3600), V(-3600, -3600), V(-3600, -7200),
   V(3600, -3600), V(0, 3600)}

Frictions == {R(0), <<1, 2>>, R(1)}

Margins == {R(0), R(1)}

\* Scenes whose constraint lengths stay rational: no constraint; or both nodes
\* on one grid line with gravity along it.
RationalSolver(s) ==
  \/ s.constraints = <<>>
  \/ /\ \A n \in 1..Len(s.nodes) : s.nodes[n].position.y = s.nodes[1].position.y
     /\ s.gravity.y = R(0)
  \/ /\ \A n \in 1..Len(s.nodes) : s.nodes[n].position.x = s.nodes[1].position.x
     /\ s.gravity.x = R(0)

Solvers ==
  LET bare == {[Solver(R(4), R(4)) EXCEPT
                  !.gravity = g, !.borderFriction = f, !.boundsMargin = m,
                  !.nodes = ns] :
                 g \in SolverForces, f \in Frictions, m \in Margins,
                 ns \in {<<Node(p)>> : p \in SolverPlaces}
                        \cup {<<Node(p1), Node(p2)>> :
                                p1 \in SolverPlaces, p2 \in SolverPlaces}}
      sprung == {[s EXCEPT !.constraints = <<Constraint(1, 2, l, k)>>] :
                   s \in {b \in bare : Len(b.nodes) = 2},
                   l \in {R(0), R(2)}, k \in {<<1, 2>>, R(1)}}
  IN  {s \in bare \cup sprung : RationalSolver(s)}

InitSolver ==
  /\ program = "main.js"
  /\ world = null
  /\ solver \in Solvers
  /\ interaction = null
  /\ call = NoCall
  /\ steps = 0

StepSolver ==
  /\ program = "main.js"
  /\ steps < MaxSteps
  /\ solver' = SolverStep(solver)
  /\ call' = Called("step", null, solver)
  /\ steps' = steps + 1
  /\ UNCHANGED <<program, world, interaction>>

Init == InitWorld \/ InitSolver

Next == StepWorld \/ StepSolver

Spec == Init /\ [][Next]_vars

(***************************************************************************)
(* SpecNode: the host calls the methods of one Physics.Node of Main.js and *)
(* sets its isStatic flag.                                                 *)
(***************************************************************************)
MaxCalls == 4

Impulses == {V(1, 0), V(0, -2)}

NodeForces == {V(3600, 0), V(0, -3600)}

InitNode ==
  /\ program = "Main.js"
  /\ world \in {[World EXCEPT !.nodes = <<PhysicsNode(p)>>] : p \in Places}
  /\ solver = null
  /\ interaction = null
  /\ call = NoCall
  /\ steps = 0

\* node.applyForce(force)
CallApplyForce ==
  /\ steps < MaxCalls
  /\ \E force \in NodeForces :
       /\ world' = [world EXCEPT !.nodes[1] = applyForce(world.nodes[1], force)]
       /\ call' = Called("applyForce", force, world)
  /\ steps' = steps + 1
  /\ UNCHANGED <<program, solver, interaction>>

\* node.applyImpulse(impulse)
CallApplyImpulse ==
  /\ steps < MaxCalls
  /\ \E impulse \in Impulses :
       /\ world' = impulseAt(world, 1, impulse)
       /\ call' = Called("applyImpulse", impulse, world)
  /\ steps' = steps + 1
  /\ UNCHANGED <<program, solver, interaction>>

\* node.updatePosition(world.deltaTime)
CallUpdatePosition ==
  /\ steps < MaxCalls
  /\ world' = [world EXCEPT
                 !.nodes[1] = updatePosition(world.nodes[1], world.deltaTime)]
  /\ call' = Called("updatePosition", null, world)
  /\ steps' = steps + 1
  /\ UNCHANGED <<program, solver, interaction>>

\* node.isStatic = static
SetStatic ==
  /\ steps < MaxCalls
  /\ \E static \in BOOLEAN :
       /\ static # world.nodes[1].isStatic
       /\ world' = [world EXCEPT !.nodes[1] = pin(world.nodes[1], static)]
       /\ call' = Called("isStatic", static, world)
  /\ steps' = steps + 1
  /\ UNCHANGED <<program, solver, interaction>>

NextNode == CallApplyForce \/ CallApplyImpulse \/ CallUpdatePosition \/ SetStatic

SpecNode == InitNode /\ [][NextNode]_vars

(***************************************************************************)
(* SpecSpring: two nodes anywhere on the grid; the host constructs one     *)
(* spring between them (Physics.Spring of Main.js, Constraint of main.js)  *)
(* and relaxes it.                                                         *)
(***************************************************************************)
InitSpring ==
  /\ interaction = null
  /\ call = NoCall
  /\ steps = 0
  /\ \/ /\ program = "Main.js"
        /\ world \in {World2(p1, p2, s1, s2, <<>>, <<>>) :
                        p1 \in Places, p2 \in Places,
                        s1 \in BOOLEAN, s2 \in BOOLEAN}
        /\ solver = null
     \/ /\ program = "main.js"
        /\ world = null
        /\ solver \in {[Solver(R(4), R(4)) EXCEPT !.nodes = <<Node(p1), Node(p2)>>] :
                         p1 \in Places, p2 \in Places}

\* world.springs.push(new Physics.Spring([node1, node2], stiffness, restLength))
NewSpring ==
  /\ program = "Main.js"
  /\ world.springs = <<>>
  /\ \E stiffness \in Stiffnesses, restLength \in RestLengths :
       /\ world' = addSpring(world, <<1, 2>>, stiffness, restLength)
       /\ call' = Called("Spring", restLength, world)
  /\ UNCHANGED <<program, solver, interaction, steps>>

\* spring.relax()
CallRelax ==
  /\ program = "Main.js"
  /\ world.springs # <<>>
  /\ steps < MaxSteps
  /\ world' = relax(world, 1)
  /\ call' = Called("relax", null, world)
  /\ steps' = steps + 1
  /\ UNCHANGED <<program, solver, interaction>>

\* solver.constraints.push(new Constraint(node0, node1, length, stiffness))
NewConstraint ==
  /\ program = "main.js"
  /\ solver.constraints = <<>>
  /\ \E stiffness \in Stiffnesses, len \in RestLengths \ {null} :
       /\ solver' = [solver EXCEPT
                       !.constraints = <<Constraint(1, 2, len, stiffness)>>]
       /\ call' = Called("Constraint", len, solver)
  /\ UNCHANGED <<program, world, interaction, steps>>

\* constraint.update()
CallUpdate ==
  /\ program = "main.js"
  /\ solver.constraints # <<>>
  /\ steps < MaxSteps
  /\ solver' = ConstraintUpdate(solver, 1)
  /\ call' = Called("update", null, solver)
  /\ steps' = steps + 1
  /\ UNCHANGED <<program, world, interaction>>

NextSpring == NewSpring \/ CallRelax \/ NewConstraint \/ CallUpdate

SpecSpring == InitSpring /\ [][NextSpring]_vars

(***************************************************************************)
(* SpecDrag: main.js with its InteractionHandler.  One free node, no       *)
(* constraint; the mouse events, update() and step() come in any order.    *)
(***************************************************************************)
MousePlaces == {V(1, 1), V(1, 0), V(2, 3)}

DragSolvers ==
  {[Solver(R(4), R(4)) EXCEPT
      !.gravity = g, !.borderFriction = f, !.nodes = <<Node(p)>>] :
     g \in {V(0, 0), V(-14400, -3600)},
     f \in {R(0), R(1)},
     p \in SolverPlaces}

InitDrag ==
  /\ program = "main.js"
  /\ world = null
  /\ solver \in DragSolvers
  /\ interaction = InteractionHandler
  /\ call = NoCall
  /\ steps = 0

\* mousedown, touchstart
MouseDown ==
  /\ ~interaction.mouse.down
  /\ interaction' = [interaction EXCEPT !.mouse.down = TRUE]
  /\ UNCHANGED <<program, world, solver, call, steps>>

\* mouseup, touchend
MouseUp ==
  /\ interaction.mouse.down
  /\ interaction' = [interaction EXCEPT !.mouse.down = FALSE]
  /\ UNCHANGED <<program, world, solver, call, steps>>

\* mousemove, touchmove
MouseMove ==
  /\ \E position \in MousePlaces :
       /\ position # interaction.mouse.position
       /\ interaction' = [interaction EXCEPT !.mouse.position = position]
  /\ UNCHANGED <<program, world, solver, call, steps>>

\* interactionHandler.update()
Update ==
  /\ interaction' = update(<<interaction, solver>>, 1)[1]
  /\ solver' = update(<<interaction, solver>>, 1)[2]
  /\ call' = Called("update", null, solver)
  /\ UNCHANGED <<program, world, steps>>

\* solver.step()
StepDrag ==
  /\ steps < MaxSteps
  /\ solver' = SolverStep(solver)
  /\ call' = Called("step", null, solver)
  /\ steps' = steps + 1
  /\ UNCHANGED <<program, world, interaction>>

NextDrag == MouseDown \/ MouseUp \/ MouseMove \/ Update \/ StepDrag

SpecDrag == InitDrag /\ [][NextDrag]_vars

(***************************************************************************)
(* Claims                                                                  *)
(***************************************************************************)

\* C1 (SpecNode).  Static invariance: while a node's isStatic is true, no call of
\* applyForce, applyImpulse or updatePosition changes its position, whatever its
\* position, positionLast and acceleration were when the flag became true.
C1_StaticInvariance ==
  [][\A n \in 1..Len(world.nodes) :
       (world.nodes[n].isStatic /\ world'.nodes[n].isStatic)
         => world'.nodes[n].position = world.nodes[n].position]_vars

\* The movement of the claim's formula for the spring of world w:
\* normal(delta) * stiffness * (length(delta) - restLength), delta = posA - posB.
Movement(w) ==
  LET delta == subtract(w.nodes[1].position, w.nodes[2].position)
  IN  multiplyScaler(normal(delta),
                     NumMul(w.springs[1].stiffness,
                            NumSub(length(delta), w.springs[1].restLength)))

\* The spring of w joins two nodes at different positions.
DeltaNonZero(w) == w.nodes[1].position # w.nodes[2].position

\* What node n of w moved by since world `before`.
Displacement(before, w, n) ==
  subtract(w.nodes[n].position, before.nodes[n].position)

\* `before` with node 1 pinned and node 2 free.
AnchoredAtA(before) ==
  [before EXCEPT !.nodes[1].isStatic = TRUE, !.nodes[2].isStatic = FALSE]

\* C2 (SpecSpring).  relax() with non-zero delta moves the nodes as the table says:
\* both free: A by -0.5 * movement, B by +0.5 * movement; A static: B by +movement;
\* B static: A by -0.2 * movement; both static: neither.  The free node's
\* displacement with B static is 0.2 times (and opposite to) the free node's
\* displacement with A static, from the same positions.
C2_RelaxDistribution ==
  (program = "Main.js" /\ call.op = "relax"
     /\ DeltaNonZero(call.before))
  => LET b  == call.before
         m  == Movement(b)
         dA == Displacement(b, world, 1)
         dB == Displacement(b, world, 2)
         sA == b.nodes[1].isStatic
         sB == b.nodes[2].isStatic
     IN  /\ (~sA /\ ~sB) => /\ dA = multiplyScaler(m, <<-1, 2>>)
                            /\ dB = multiplyScaler(m, <<1, 2>>)
         /\ (sA /\ ~sB)  => dA = zero /\ dB = m
         /\ (~sA /\ sB)  => /\ dA = multiplyScaler(m, <<-1, 5>>)
                            /\ dB = zero
                            /\ dA = multiplyScaler(
                                      Displacement(b, relax(AnchoredAtA(b), 1), 2),
                                      <<-1, 5>>)
         /\ (sA /\ sB)   => dA = zero /\ dB = zero

\* A spring anchored at B has pulled A by a non-zero fifth of the movement.
C2_Witness ==
  /\ program = "Main.js"
  /\ call.op = "relax"
  /\ DeltaNonZero(call.before)
  /\ ~call.before.nodes[1].isStatic
  /\ call.before.nodes[2].isStatic
  /\ Movement(call.before) # zero
  /\ Displacement(call.before, world, 1) # zero

\* The phase of step() a traced call belongs to.
Phase(op) ==
  CASE op \in {"behavior", "applyGravity"}            -> 1
    [] op \in {"integration", "updatePositions"}      -> 2
    [] op \in {"constraint", "applyBounds"}           -> 3
    [] op \in {"spring", "updateConstraints"}         -> 4

\* The number of calls op(idx, node) in trace t.
Count(t, op, idx, node) ==
  Cardinality({i \in 1..Len(t) :
                 t[i].op = op /\ t[i].idx = idx /\ t[i].node = node})

\* C3 (Spec).  Every step() runs its four phases once and in the order behaviors,
\* integration, constraints, springs: every call of a phase comes before every
\* call of a later phase, and each phase makes each of its calls exactly once
\* (World.step of Main.js and Solver.step of main.js).
C3_PhaseOrder ==
  /\ (program = "Main.js" /\ call.op = "step")
       => LET t == world.trace
              N == 1..Len(world.nodes)
          IN  /\ \A i, j \in 1..Len(t) :
                   i < j => Phase(t[i].op) <= Phase(t[j].op)
              /\ \A b \in 1..Len(world.behaviors), n \in N :
                   Count(t, "behavior", b, n) = 1
              /\ \A n \in N : Count(t, "integration", 0, n) = 1
              /\ \A c \in 1..Len(world.constraints), n \in N :
                   Count(t, "constraint", c, n) = 1
              /\ \A k \in 1..Len(world.springs) : Count(t, "spring", k, 0) = 1
              /\ Len(t) = Len(world.behaviors) * Len(world.nodes)
                          + Len(world.nodes)
                          + Len(world.constraints) * Len(world.nodes)
                          + Len(world.springs)
  /\ (program = "main.js" /\ call.op = "step")
       => LET t == solver.trace
              N == 1..Len(solver.nodes)
          IN  /\ \A i, j \in 1..Len(t) :
                   i < j => Phase(t[i].op) <= Phase(t[j].op)
              /\ \A n \in N : /\ Count(t, "applyGravity", 0, n) = 1
                              /\ Count(t, "updatePositions", 0, n) = 1
                              /\ Count(t, "applyBounds", 0, n) = 1
              /\ \A c \in 1..Len(solver.constraints) :
                   Count(t, "updateConstraints", c, solver.constraints[c].node0) = 1
              /\ Len(t) = 3 * Len(solver.nodes) + Len(solver.constraints)

\* A World step in which every phase had calls to make.
C3_Witness ==
  /\ program = "Main.js"
  /\ call.op = "step"
  /\ steps >= 2
  /\ Len(world.behaviors) >= 2
  /\ Len(world.constraints) >= 1
  /\ Len(world.springs) >= 1
  /\ Len(world.trace) = 9

\* The two nodes of a world or solver stand at the same position.
Coincident(ws) == ws.nodes[1].position = ws.nodes[2].position

\* C4 (SpecSpring).  Degenerate spring: relaxing a spring whose two nodes have
\* identical positions leaves both positions unchanged and finite, in Main.js
\* (Spring.relax) and in main.js (Constraint.update).
C4_DegenerateSpring ==
  /\ (program = "Main.js" /\ call.op = "relax" /\ Coincident(call.before))
       => \A n \in 1..2 :
            /\ world.nodes[n].position = call.before.nodes[n].position
            /\ vectorFinite(world.nodes[n].position)
  /\ (program = "main.js" /\ call.op = "update" /\ Coincident(call.before))
       => \A n \in 1..2 :
            /\ solver.nodes[n].position = call.before.nodes[n].position
            /\ vectorFinite(solver.nodes[n].position)

\* The applyBounds calls of the solver's last step.
BoundsCalls ==
  {solver.trace[i] : i \in {i \in 1..Len(solver.trace) :
                              solver.trace[i].op = "applyBounds"}}

\* C5 (Spec).  Boundary clamp: a node with position.x < boundsMargin when
\* applyBounds starts has, after it, position.x = boundsMargin and
\* position.x - positionLast.x = 0; likewise for the right, top and bottom planes;
\* for every friction, velocity and other coordinate, corners included.
C5_BoundaryClamp ==
  (program = "main.js" /\ call.op = "step")
  => \A e \in BoundsCalls :
       LET lo == solver.boundsMargin
           hx == NumSub(solver.width, solver.boundsMargin)
           hy == NumSub(solver.height, solver.boundsMargin)
       IN  /\ NumLt(e.before.position.x, lo)
                => /\ e.after.position.x = lo
                   /\ NumSub(e.after.position.x, e.after.positionLast.x) = R(0)
           /\ NumGt(e.before.position.x, hx)
                => /\ e.after.position.x = hx
                   /\ NumSub(e.after.position.x, e.after.positionLast.x) = R(0)
           /\ NumLt(e.before.position.y, lo)
                => /\ e.after.position.y = lo
                   /\ NumSub(e.after.position.y, e.after.positionLast.y) = R(0)
           /\ NumGt(e.before.position.y, hy)
                => /\ e.after.position.y = hy
                   /\ NumSub(e.after.position.y, e.after.positionLast.y) = R(0)

\* No constraint (spring) of the solver is attached to node n.
Unattached(n) ==
  \A c \in 1..Len(solver.constraints) :
    solver.constraints[c].node0 # n /\ solver.constraints[c].node1 # n

\* C6 (Spec).  Friction full-arrest: a node with no spring attached that crosses a
\* boundary plane during a step() with |j| <= k has, at the end of that step,
\* position - positionLast zero on the tangential axis; for every gravity.
C6_FullArrest ==
  (program = "main.js" /\ call.op = "step")
  => \A e \in BoundsCalls :
       Unattached(e.node)
       => LET node == solver.nodes[e.node]
          IN  /\ (e.arrested \cap {"left", "right"} # {})
                   => NumSub(node.position.y, node.positionLast.y) = R(0)
              /\ (e.arrested \cap {"top", "bottom"} # {})
                   => NumSub(node.position.x, node.positionLast.x) = R(0)

\* C7 (SpecSpring).  A Spring constructed with a restLength argument r >= 0 has
\* restLength = r, r = 0 included; without the argument it has the distance
\* between its two nodes.
C7_RestLength ==
  (program = "Main.js" /\ call.op = "Spring")
  => IF call.arg # null
       THEN world.springs[1].restLength = call.arg
       ELSE world.springs[1].restLength =
              length(subtract(world.nodes[1].position, world.nodes[2].position))

\* The claim's scene: two nodes at rest, joined by one spring whose restLength is
\* their distance, at least one of them free; no constraint and no force.
Equilibrium(w) ==
  /\ Len(w.nodes) = 2
  /\ Len(w.springs) = 1
  /\ w.constraints = <<>>
  /\ \A b \in 1..Len(w.behaviors) : w.behaviors[b].force = zero
  /\ \A n \in 1..2 : /\ w.nodes[n].position = w.nodes[n].positionLast
                     /\ w.nodes[n].acceleration = zero
  /\ w.springs[1].restLength =
       length(subtract(w.nodes[1].position, w.nodes[2].position))
  /\ ~(w.nodes[1].isStatic /\ w.nodes[2].isStatic)

\* C8 (Spec).  Spring equilibrium: in a World with no constraints and no force, two
\* nodes at rest at separation d0, joined by one spring with restLength d0, keep
\* their positions through every step(), for every stiffness and every
\* combination of static flags with a free node; the scene after the step is
\* again such a scene, so this holds after any number of steps.
C8_Equilibrium ==
  (program = "Main.js" /\ call.op = "step" /\ Equilibrium(call.before))
  => /\ \A n \in 1..2 :
          world.nodes[n].position = call.before.nodes[n].position
     /\ Equilibrium(world)

\* The second step of a spring of stiffness 0.5 and length 3 anchored at a static
\* node.
C8_Witness ==
  /\ program = "Main.js"
  /\ call.op = "step"
  /\ steps >= 2
  /\ Equilibrium(call.before)
  /\ world.nodes[1].isStatic
  /\ ~world.nodes[2].isStatic
  /\ world.springs[1].stiffness = <<1, 2>>
  /\ world.springs[1].restLength = R(3)

\* The position lies in the box [rectangle.position, rectangle.position + scale].
Inside(rectangle, position) ==
  /\ NumLe(rectangle.position.x, position.x)
  /\ NumLe(position.x, NumAdd(rectangle.position.x, rectangle.scale.x))
  /\ NumLe(rectangle.position.y, position.y)
  /\ NumLe(position.y, NumAdd(rectangle.position.y, rectangle.scale.y))

\* Every free node of nodes lies in the box of the world's one constraint.
FreeNodesInside(nodes) ==
  \A n \in 1..Len(nodes) :
    ~nodes[n].isStatic => Inside(world.constraints[1].rectangle, nodes[n].position)

\* C9 as claimed (Spec).  In a World with exactly one RectangleConstraint, at the
\* end of every step() every non-static node lies inside the box, for any springs.
C9_InsideAtEndOfStep ==
  (program = "Main.js" /\ call.op = "step" /\ Len(world.constraints) = 1)
  => FreeNodesInside(world.nodes)

\* The calls of the constraints phase in the world's trace.
ConstraintCalls ==
  {i \in 1..Len(world.trace) : world.trace[i].op = "constraint"}

\* C9 as amended (Spec).  In a World with exactly one RectangleConstraint, every
\* non-static node lies inside the box at the end of the constraints phase of
\* every step(), before the springs are relaxed; at the end of step() it does so
\* when the World has no springs.
C9_InsideAfterConstraints ==
  (program = "Main.js" /\ call.op = "step" /\ Len(world.constraints) = 1)
  => /\ \A i \in ConstraintCalls :
          (\A j \in ConstraintCalls : j <= i)
            => FreeNodesInside(world.trace[i].nodes)
     /\ world.springs = <<>> => FreeNodesInside(world.nodes)

\* A step with a spring and one constraint that found a free node outside the box.
C9_Witness ==
  /\ program = "Main.js"
  /\ call.op = "step"
  /\ Len(world.constraints) = 1
  /\ Len(world.springs) = 1
  /\ \E i \in 1..Len(world.trace) :
       /\ world.trace[i].op = "integration"
       /\ (\A j \in 1..Len(world.trace) :
             world.trace[j].op = "integration" => j <= i)
       /\ ~FreeNodesInside(world.trace[i].nodes)

\* C10 (SpecDrag).  With 2 * boundsMargin <= width and height, right after
\* applyBounds every node has boundsMargin <= position.x <= width - boundsMargin
\* and boundsMargin <= position.y <= height - boundsMargin.
C10_InsideBounds ==
  (program = "main.js" /\ call.op = "step"
     /\ NumLe(NumMul(R(2), solver.boundsMargin), solver.width)
     /\ NumLe(NumMul(R(2), solver.boundsMargin), solver.height))
  => \A e \in BoundsCalls :
       /\ NumLe(solver.boundsMargin, e.after.position.x)
       /\ NumLe(e.after.position.x, NumSub(solver.width, solver.boundsMargin))
       /\ NumLe(solver.boundsMargin, e.after.position.y)
       /\ NumLe(e.after.position.y, NumSub(solver.height, solver.boundsMargin))

====
